---- MODULE Spec2Model ----
(***************************************************************************)
(* Version-bits (BIP 8 / BIP 9 style) deployment state machine of          *)
(* src/src/versionbits.cpp, driven by the chain builder and the checker    *)
(* of src/unnamed/part_000.                                                 *)
(*                                                                         *)
(* A block index is the sequence of the versions of its ancestors and of   *)
(* itself, genesis first: what the pointer reaches through pprev.  The     *)
(* empty sequence NULL is nullptr, the parent of genesis.  chain is the    *)
(* tip; obs[h + 2] holds what the latest state and since-height queries    *)
(* with pindexPrev = the block at height h returned (obs[1]: nullptr), and  *)
(* whether any query made for that block dereferenced nullptr.             *)
(***************************************************************************)
EXTENDS Integers, Naturals, Sequences, FiniteSets, TLC

VARIABLES cfg, chain, cache, obs

vars == <<cfg, chain, cache, obs>>

(*************************** bounds of the model ***************************)
MaxBlocks == 4
MaxPeriod == 2
MaxParamHeight == 3
LateActivation == 4

(**************************** program constants ****************************)
NULL == <<>>

DEFINED == "DEFINED"
STARTED == "STARTED"
MUST_SIGNAL == "MUST_SIGNAL"
LOCKED_IN == "LOCKED_IN"
ACTIVE == "ACTIVE"
FAILED == "FAILED"

ThresholdState == {DEFINED, STARTED, MUST_SIGNAL, LOCKED_IN, ACTIVE, FAILED}

INT32_MAX == 2147483647
ALWAYS_ACTIVE == INT32_MAX
NEVER_ACTIVE == INT32_MAX - 1
NO_TIMEOUT == INT32_MAX

VERSIONBITS_TOP_BITS == 536870912
VERSIONBITS_NUM_BITS == 29

(***************************** the chain view ******************************)
nHeight(pindex) == Len(pindex) - 1

pprev(pindex) == SubSeq(pindex, 1, Len(pindex) - 1)

nVersion(pindex) == pindex[Len(pindex)]

GetAncestor(pindex, height) ==
    IF height > nHeight(pindex) \/ height < 0 THEN NULL
    ELSE SubSeq(pindex, 1, height + 1)

tip == chain

(* every value a caller can pass as pindexPrev: nullptr or a mined block *)
Blocks == {SubSeq(chain, 1, n) : n \in 0 .. Len(chain)}

(*************************** the condition checker *************************)
Period == cfg.period
Threshold == cfg.threshold
StartHeight == cfg.startheight
TimeoutHeight == cfg.timeoutheight
MinActivationHeight == cfg.min_activation
LockinOnTimeout == cfg.lockinontimeout

Pow2(n) == 2 ^ n

(* version & VERSIONBITS_TOP_MASK (0xE0000000), as the value of the top    *)
(* three bits of the two's-complement int32 (0..7); the masked value       *)
(* itself does not fit the checker's integers.                             *)
TopBitsOf(version) ==
    IF version >= 0
    THEN version \div Pow2(VERSIONBITS_NUM_BITS)
    ELSE 4 + (((version + INT32_MAX) + 1) \div Pow2(VERSIONBITS_NUM_BITS))

(* version & mask for a mask of one bit below the top three bits *)
BitAndMask(version, mask) ==
    IF ((version % Pow2(VERSIONBITS_NUM_BITS)) \div mask) % 2 = 1 THEN mask ELSE 0

Mask(bit) == Pow2(bit)

(* mutant: the deployment bit alone decides, the top bits are not looked at *)
ConditionVersion_NoTopBits(version, bit) ==
    BitAndMask(version, Mask(bit)) # 0

ConditionVersion(version, bit) ==
    /\ TopBitsOf(version) = VERSIONBITS_TOP_BITS \div Pow2(VERSIONBITS_NUM_BITS)
    /\ BitAndMask(version, Mask(bit)) # 0

Condition(pindex) == ConditionVersion(nVersion(pindex), cfg.bit)

(******************************* the cache *********************************)
EmptyCache == [k \in {} |-> DEFINED]

Count(c, pindex) == IF pindex \in DOMAIN c THEN 1 ELSE 0

Put(c, pindex, state) ==
    [k \in (DOMAIN c) \cup {pindex} |-> IF k = pindex THEN state ELSE c[k]]

(*************************** GetStateFor ***********************************)
(* mutant: the alignment forgets that the state is tracked by previous block *)
AlignToPeriod_ByOwnHeight(pindexPrev) ==
    IF pindexPrev # NULL
    THEN GetAncestor(pindexPrev,
                     nHeight(pindexPrev) - (nHeight(pindexPrev) % Period))
    ELSE pindexPrev

(* A block's state is that of the first block of its period: the pindexPrev *)
(* whose height is a multiple of nPeriod, minus one.                        *)
AlignToPeriod(pindexPrev) ==
    IF pindexPrev # NULL
    THEN GetAncestor(pindexPrev,
                     nHeight(pindexPrev) - ((nHeight(pindexPrev) + 1) % Period))
    ELSE pindexPrev

(* mutant: the walk-back shortcut compares with <= instead of < *)
RECURSIVE WalkBack_ShortcutAtStart(_, _, _)
WalkBack_ShortcutAtStart(pindexPrev, c, vToCompute) ==
    IF Count(c, pindexPrev) # 0
    THEN [cache |-> c, pindexPrev |-> pindexPrev, vToCompute |-> vToCompute]
    ELSE IF pindexPrev = NULL
    THEN [cache |-> Put(c, pindexPrev, DEFINED), pindexPrev |-> pindexPrev,
          vToCompute |-> vToCompute]
    ELSE IF nHeight(pindexPrev) + 1 <= StartHeight
    THEN [cache |-> Put(c, pindexPrev, DEFINED), pindexPrev |-> pindexPrev,
          vToCompute |-> vToCompute]
    ELSE WalkBack_ShortcutAtStart(
             GetAncestor(pindexPrev, nHeight(pindexPrev) - Period), c,
             Append(vToCompute, pindexPrev))

(* mutant: with a start height of 0 the parent of genesis is STARTED *)
RECURSIVE WalkBack_GenesisStarted(_, _, _)
WalkBack_GenesisStarted(pindexPrev, c, vToCompute) ==
    IF Count(c, pindexPrev) # 0
    THEN [cache |-> c, pindexPrev |-> pindexPrev, vToCompute |-> vToCompute]
    ELSE IF pindexPrev = NULL
    THEN [cache |-> Put(c, pindexPrev,
                        IF StartHeight <= 0 THEN STARTED ELSE DEFINED),
          pindexPrev |-> pindexPrev, vToCompute |-> vToCompute]
    ELSE IF nHeight(pindexPrev) + 1 < StartHeight
    THEN [cache |-> Put(c, pindexPrev, DEFINED), pindexPrev |-> pindexPrev,
          vToCompute |-> vToCompute]
    ELSE WalkBack_GenesisStarted(
             GetAncestor(pindexPrev, nHeight(pindexPrev) - Period), c,
             Append(vToCompute, pindexPrev))

(* mutant: the walk back does not stop at a block the cache knows *)
RECURSIVE WalkBack_IgnoresCache(_, _, _)
WalkBack_IgnoresCache(pindexPrev, c, vToCompute) ==
    IF pindexPrev = NULL
    THEN [cache |-> Put(c, pindexPrev, DEFINED), pindexPrev |-> pindexPrev,
          vToCompute |-> vToCompute]
    ELSE IF nHeight(pindexPrev) + 1 < StartHeight
    THEN [cache |-> Put(c, pindexPrev, DEFINED), pindexPrev |-> pindexPrev,
          vToCompute |-> vToCompute]
    ELSE WalkBack_IgnoresCache(
             GetAncestor(pindexPrev, nHeight(pindexPrev) - Period), c,
             Append(vToCompute, pindexPrev))

(* mutant: the walk back steps one block, not one period *)
RECURSIVE WalkBack_StepsByBlock(_, _, _)
WalkBack_StepsByBlock(pindexPrev, c, vToCompute) ==
    IF Count(c, pindexPrev) # 0
    THEN [cache |-> c, pindexPrev |-> pindexPrev, vToCompute |-> vToCompute]
    ELSE IF pindexPrev = NULL
    THEN [cache |-> Put(c, pindexPrev, DEFINED), pindexPrev |-> pindexPrev,
          vToCompute |-> vToCompute]
    ELSE IF nHeight(pindexPrev) + 1 < StartHeight
    THEN [cache |-> Put(c, pindexPrev, DEFINED), pindexPrev |-> pindexPrev,
          vToCompute |-> vToCompute]
    ELSE WalkBack_StepsByBlock(
             GetAncestor(pindexPrev, nHeight(pindexPrev) - 1), c,
             Append(vToCompute, pindexPrev))

(* Walk backwards in steps of nPeriod to a pindexPrev whose state is known. *)
(* Result: the cache, the block the walk stopped at and vToCompute.         *)
RECURSIVE WalkBack(_, _, _)
WalkBack(pindexPrev, c, vToCompute) ==
    IF Count(c, pindexPrev) # 0
    THEN [cache |-> c, pindexPrev |-> pindexPrev, vToCompute |-> vToCompute]
    ELSE IF pindexPrev = NULL
    THEN [cache |-> Put(c, pindexPrev, DEFINED), pindexPrev |-> pindexPrev,
          vToCompute |-> vToCompute]
    ELSE IF nHeight(pindexPrev) + 1 < StartHeight
    THEN [cache |-> Put(c, pindexPrev, DEFINED), pindexPrev |-> pindexPrev,
          vToCompute |-> vToCompute]
    ELSE WalkBack(GetAncestor(pindexPrev, nHeight(pindexPrev) - Period), c,
                  Append(vToCompute, pindexPrev))

(* mutant: the counting loop stops one block short of the period *)
RECURSIVE CountLoop_OneShort(_, _, _)
CountLoop_OneShort(pindexCount, i, count) ==
    IF i >= Period - 1 THEN [count |-> count, deref |-> FALSE]
    ELSE IF pindexCount = NULL THEN [count |-> count, deref |-> TRUE]
    ELSE CountLoop_OneShort(pprev(pindexCount), i + 1,
                            IF Condition(pindexCount) THEN count + 1 ELSE count)

(* The counting loop of the STARTED case: nPeriod steps along pprev.        *)
(* deref is set when a step evaluates Condition on nullptr.                 *)
RECURSIVE CountLoop(_, _, _)
CountLoop(pindexCount, i, count) ==
    IF i >= Period THEN [count |-> count, deref |-> FALSE]
    ELSE IF pindexCount = NULL THEN [count |-> count, deref |-> TRUE]
    ELSE CountLoop(pprev(pindexCount), i + 1,
                   IF Condition(pindexCount) THEN count + 1 ELSE count)

(* mutant: FAILED is not terminal, a failed deployment starts again *)
StateNext_FailedRestarts(state, height, count) ==
    CASE state \in {DEFINED, FAILED} ->
            IF height >= StartHeight THEN STARTED ELSE state
      [] state = STARTED ->
            IF count >= Threshold THEN LOCKED_IN
            ELSE IF LockinOnTimeout /\ height + Period >= TimeoutHeight
                 THEN MUST_SIGNAL
            ELSE IF height >= TimeoutHeight THEN FAILED
            ELSE state
      [] state = MUST_SIGNAL -> LOCKED_IN
      [] state = LOCKED_IN ->
            IF height >= MinActivationHeight THEN ACTIVE ELSE state
      [] OTHER -> state

(* mutant: LOCKED_IN activates at the next boundary whatever the minimum    *)
(* activation height                                                        *)
StateNext_NoMinActivation(state, height, count) ==
    CASE state = DEFINED ->
            IF height >= StartHeight THEN STARTED ELSE state
      [] state = STARTED ->
            IF count >= Threshold THEN LOCKED_IN
            ELSE IF LockinOnTimeout /\ height + Period >= TimeoutHeight
                 THEN MUST_SIGNAL
            ELSE IF height >= TimeoutHeight THEN FAILED
            ELSE state
      [] state = MUST_SIGNAL -> LOCKED_IN
      [] state = LOCKED_IN -> ACTIVE
      [] OTHER -> state

(* mutant: MUST_SIGNAL counts like STARTED instead of always locking in *)
StateNext_MustSignalCounts(state, height, count) ==
    CASE state = DEFINED ->
            IF height >= StartHeight THEN STARTED ELSE state
      [] state \in {STARTED, MUST_SIGNAL} ->
            IF count >= Threshold THEN LOCKED_IN
            ELSE IF LockinOnTimeout /\ height + Period >= TimeoutHeight
                 THEN MUST_SIGNAL
            ELSE IF height >= TimeoutHeight THEN FAILED
            ELSE state
      [] state = LOCKED_IN ->
            IF height >= MinActivationHeight THEN ACTIVE ELSE state
      [] OTHER -> state

(* mutant: the timeout is tested before lockinontimeout *)
StateNext_TimeoutFirst(state, height, count) ==
    CASE state = DEFINED ->
            IF height >= StartHeight THEN STARTED ELSE state
      [] state = STARTED ->
            IF count >= Threshold THEN LOCKED_IN
            ELSE IF height >= TimeoutHeight THEN FAILED
            ELSE IF LockinOnTimeout /\ height + Period >= TimeoutHeight
                 THEN MUST_SIGNAL
            ELSE state
      [] state = MUST_SIGNAL -> LOCKED_IN
      [] state = LOCKED_IN ->
            IF height >= MinActivationHeight THEN ACTIVE ELSE state
      [] OTHER -> state

(* mutant: lock-in needs more signalling blocks than the threshold *)
StateNext_ThresholdStrict(state, height, count) ==
    CASE state = DEFINED ->
            IF height >= StartHeight THEN STARTED ELSE state
      [] state = STARTED ->
            IF count > Threshold THEN LOCKED_IN
            ELSE IF LockinOnTimeout /\ height + Period >= TimeoutHeight
                 THEN MUST_SIGNAL
            ELSE IF height >= TimeoutHeight THEN FAILED
            ELSE state
      [] state = MUST_SIGNAL -> LOCKED_IN
      [] state = LOCKED_IN ->
            IF height >= MinActivationHeight THEN ACTIVE ELSE state
      [] OTHER -> state

(* mutant: a deployment starts only past its start height *)
StateNext_StartStrict(state, height, count) ==
    CASE state = DEFINED ->
            IF height > StartHeight THEN STARTED ELSE state
      [] state = STARTED ->
            IF count >= Threshold THEN LOCKED_IN
            ELSE IF LockinOnTimeout /\ height + Period >= TimeoutHeight
                 THEN MUST_SIGNAL
            ELSE IF height >= TimeoutHeight THEN FAILED
            ELSE state
      [] state = MUST_SIGNAL -> LOCKED_IN
      [] state = LOCKED_IN ->
            IF height >= MinActivationHeight THEN ACTIVE ELSE state
      [] OTHER -> state

(* mutant: the DEFINED case has no break and falls through into the        *)
(* STARTED case once the start height is reached                            *)
StateNext_DefinedFallsThrough(state, height, count) ==
    CASE state = DEFINED ->
            IF height >= StartHeight
            THEN IF count >= Threshold THEN LOCKED_IN
                 ELSE IF LockinOnTimeout /\ height + Period >= TimeoutHeight
                      THEN MUST_SIGNAL
                 ELSE IF height >= TimeoutHeight THEN FAILED
                 ELSE STARTED
            ELSE state
      [] state = STARTED ->
            IF count >= Threshold THEN LOCKED_IN
            ELSE IF LockinOnTimeout /\ height + Period >= TimeoutHeight
                 THEN MUST_SIGNAL
            ELSE IF height >= TimeoutHeight THEN FAILED
            ELSE state
      [] state = MUST_SIGNAL -> LOCKED_IN
      [] state = LOCKED_IN ->
            IF height >= MinActivationHeight THEN ACTIVE ELSE state
      [] OTHER -> state

(* mutant: MUST_SIGNAL is entered near the timeout whether or not the      *)
(* deployment locks in on timeout                                           *)
StateNext_MustSignalWithoutLockin(state, height, count) ==
    CASE state = DEFINED ->
            IF height >= StartHeight THEN STARTED ELSE state
      [] state = STARTED ->
            IF count >= Threshold THEN LOCKED_IN
            ELSE IF height + Period >= TimeoutHeight THEN MUST_SIGNAL
            ELSE IF height >= TimeoutHeight THEN FAILED
            ELSE state
      [] state = MUST_SIGNAL -> LOCKED_IN
      [] state = LOCKED_IN ->
            IF height >= MinActivationHeight THEN ACTIVE ELSE state
      [] OTHER -> state

(* The switch of the forward pass: the state of the period that starts at   *)
(* height, from the state of the period before it and its signal count.     *)
StateNext(state, height, count) ==
    CASE state = DEFINED ->
            IF height >= StartHeight THEN STARTED ELSE state
      [] state = STARTED ->
            IF count >= Threshold THEN LOCKED_IN
            ELSE IF LockinOnTimeout /\ height + Period >= TimeoutHeight
                 THEN MUST_SIGNAL
            ELSE IF height >= TimeoutHeight THEN FAILED
            ELSE state
      [] state = MUST_SIGNAL -> LOCKED_IN
      [] state = LOCKED_IN ->
            IF height >= MinActivationHeight THEN ACTIVE ELSE state
      [] OTHER -> state

(* mutant: the switch is given the height of pindexPrev, not the height of  *)
(* the block after it                                                       *)
RECURSIVE WalkForward_HeightOfPrev(_, _, _, _)
WalkForward_HeightOfPrev(state, c, vToCompute, deref) ==
    IF vToCompute = <<>>
    THEN [state |-> state, cache |-> c, deref |-> deref]
    ELSE LET pindexPrev == vToCompute[Len(vToCompute)]
             counted == IF state = STARTED THEN CountLoop(pindexPrev, 0, 0)
                        ELSE [count |-> 0, deref |-> FALSE]
             stateNext == StateNext(state, nHeight(pindexPrev), counted.count)
         IN  WalkForward_HeightOfPrev(stateNext, Put(c, pindexPrev, stateNext),
                                      SubSeq(vToCompute, 1, Len(vToCompute) - 1),
                                      deref \/ counted.deref)

(* Walk forward and compute the state of the descendants of pindexPrev: one *)
(* iteration of the forward loop for the block popped off vToCompute, the   *)
(* counting loop run where the state is STARTED.                            *)
RECURSIVE WalkForward(_, _, _, _)
WalkForward(state, c, vToCompute, deref) ==
    IF vToCompute = <<>>
    THEN [state |-> state, cache |-> c, deref |-> deref]
    ELSE LET pindexPrev == vToCompute[Len(vToCompute)]
             counted == IF state = STARTED THEN CountLoop(pindexPrev, 0, 0)
                        ELSE [count |-> 0, deref |-> FALSE]
             stateNext == StateNext(state, nHeight(pindexPrev) + 1, counted.count)
         IN  WalkForward(stateNext, Put(c, pindexPrev, stateNext),
                         SubSeq(vToCompute, 1, Len(vToCompute) - 1),
                         deref \/ counted.deref)

(* mutant: no early return for a deployment that is always active *)
GetStateFor_NoAlwaysActive(pindexPrev, c) ==
    IF StartHeight = NEVER_ACTIVE /\ TimeoutHeight = NEVER_ACTIVE
    THEN [state |-> DEFINED, cache |-> c, deref |-> FALSE]
    ELSE LET back == WalkBack(AlignToPeriod(pindexPrev), c, <<>>)
         IN  WalkForward(back.cache[back.pindexPrev], back.cache,
                         back.vToCompute, FALSE)

(* mutant: a deployment that is never active is reported as FAILED *)
GetStateFor_NeverActiveFails(pindexPrev, c) ==
    IF StartHeight = NEVER_ACTIVE /\ TimeoutHeight = NEVER_ACTIVE
    THEN [state |-> FAILED, cache |-> c, deref |-> FALSE]
    ELSE IF StartHeight = ALWAYS_ACTIVE
    THEN [state |-> ACTIVE, cache |-> c, deref |-> FALSE]
    ELSE LET back == WalkBack(AlignToPeriod(pindexPrev), c, <<>>)
         IN  WalkForward(back.cache[back.pindexPrev], back.cache,
                         back.vToCompute, FALSE)

(* Result: the returned state, the cache after the call, and whether the    *)
(* call dereferenced nullptr.                                               *)
GetStateFor(pindexPrev, c) ==
    IF StartHeight = NEVER_ACTIVE /\ TimeoutHeight = NEVER_ACTIVE
    THEN [state |-> DEFINED, cache |-> c, deref |-> FALSE]
    ELSE IF StartHeight = ALWAYS_ACTIVE
    THEN [state |-> ACTIVE, cache |-> c, deref |-> FALSE]
    ELSE LET back == WalkBack(AlignToPeriod(pindexPrev), c, <<>>)
         IN  WalkForward(back.cache[back.pindexPrev], back.cache,
                         back.vToCompute, FALSE)

(*************************** GetStateSinceHeightFor ************************)
(* mutant: the result is not adjusted from the parent block to the block *)
RECURSIVE SinceLoop_NoAdjust(_, _, _, _, _)
SinceLoop_NoAdjust(pindexPrev, previousPeriodParent, initialState, c, deref) ==
    IF previousPeriodParent = NULL
    THEN [since |-> nHeight(pindexPrev), cache |-> c, deref |-> deref]
    ELSE LET r == GetStateFor(previousPeriodParent, c)
         IN  IF r.state = initialState
             THEN SinceLoop_NoAdjust(previousPeriodParent,
                                     GetAncestor(previousPeriodParent,
                                                 nHeight(previousPeriodParent) - Period),
                                     initialState, r.cache, deref \/ r.deref)
             ELSE [since |-> nHeight(pindexPrev), cache |-> r.cache,
                   deref |-> deref \/ r.deref]

(* mutant: the loop does not walk back over the earlier periods in the same *)
(* state                                                                    *)
SinceLoop_NeverWalks(pindexPrev, previousPeriodParent, initialState, c, deref) ==
    [since |-> nHeight(pindexPrev) + 1, cache |-> c, deref |-> deref]

(* The loop over earlier periods: every GetStateFor call runs on, and       *)
(* leaves its entries in, the same cache.                                   *)
RECURSIVE SinceLoop(_, _, _, _, _)
SinceLoop(pindexPrev, previousPeriodParent, initialState, c, deref) ==
    IF previousPeriodParent = NULL
    THEN [since |-> nHeight(pindexPrev) + 1, cache |-> c, deref |-> deref]
    ELSE LET r == GetStateFor(previousPeriodParent, c)
         IN  IF r.state = initialState
             THEN SinceLoop(previousPeriodParent,
                            GetAncestor(previousPeriodParent,
                                        nHeight(previousPeriodParent) - Period),
                            initialState, r.cache, deref \/ r.deref)
             ELSE [since |-> nHeight(pindexPrev) + 1, cache |-> r.cache,
                   deref |-> deref \/ r.deref]

(* mutant: pindexPrev is not aligned to its period before the walk *)
GetStateSinceHeightFor_Unaligned(pindexPrev, c) ==
    IF StartHeight = ALWAYS_ACTIVE
    THEN [since |-> 0, cache |-> c, deref |-> FALSE]
    ELSE LET initial == GetStateFor(pindexPrev, c)
         IN  IF initial.state = DEFINED
             THEN [since |-> 0, cache |-> initial.cache, deref |-> initial.deref]
             ELSE IF pindexPrev = NULL
             THEN [since |-> 0, cache |-> initial.cache, deref |-> TRUE]
             ELSE SinceLoop(pindexPrev,
                            GetAncestor(pindexPrev, nHeight(pindexPrev) - Period),
                            initial.state, initial.cache, initial.deref)

(* mutant: no early return of 0 for the state DEFINED *)
GetStateSinceHeightFor_NoDefinedShortcut(pindexPrev, c) ==
    IF StartHeight = ALWAYS_ACTIVE
    THEN [since |-> 0, cache |-> c, deref |-> FALSE]
    ELSE LET initial == GetStateFor(pindexPrev, c)
         IN  IF pindexPrev = NULL \/ AlignToPeriod(pindexPrev) = NULL
             THEN [since |-> 0, cache |-> initial.cache, deref |-> initial.deref]
             ELSE LET aligned == AlignToPeriod(pindexPrev)
                  IN  SinceLoop(aligned,
                                GetAncestor(aligned, nHeight(aligned) - Period),
                                initial.state, initial.cache, initial.deref)

(* Result: the returned height, the cache after the call, and whether the   *)
(* call dereferenced nullptr (the returned height then means nothing).      *)
GetStateSinceHeightFor(pindexPrev, c) ==
    IF StartHeight = ALWAYS_ACTIVE
    THEN [since |-> 0, cache |-> c, deref |-> FALSE]
    ELSE LET initial == GetStateFor(pindexPrev, c)
         IN  IF initial.state = DEFINED
             THEN [since |-> 0, cache |-> initial.cache, deref |-> initial.deref]
             ELSE IF pindexPrev = NULL \/ AlignToPeriod(pindexPrev) = NULL
             THEN [since |-> 0, cache |-> initial.cache, deref |-> TRUE]
             ELSE LET aligned == AlignToPeriod(pindexPrev)
                  IN  SinceLoop(aligned,
                                GetAncestor(aligned, nHeight(aligned) - Period),
                                initial.state, initial.cache, initial.deref)

(*************************** GetStateStatisticsFor *************************)
(* BIP9Stats stats = {}: also what is recorded where no statistics are taken *)
NoStats ==
    [period |-> 0, threshold |-> 0, elapsed |-> 0, count |-> 0, possible |-> FALSE]

(* mutant: the count stops one block before the beginning of the period *)
RECURSIVE StatsLoop_OneShort(_, _, _)
StatsLoop_OneShort(pindexEndOfPrevPeriod, currentIndex, count) ==
    IF currentIndex = NULL THEN [count |-> count, deref |-> TRUE]
    ELSE IF nHeight(pindexEndOfPrevPeriod) >= nHeight(currentIndex) - 1
    THEN [count |-> count, deref |-> FALSE]
    ELSE StatsLoop_OneShort(pindexEndOfPrevPeriod, pprev(currentIndex),
                            IF Condition(currentIndex) THEN count + 1 ELSE count)

(* Count from the current block to the beginning of the period.  deref is   *)
(* set when the walk steps onto nullptr.                                    *)
RECURSIVE StatsLoop(_, _, _)
StatsLoop(pindexEndOfPrevPeriod, currentIndex, count) ==
    IF currentIndex = NULL THEN [count |-> count, deref |-> TRUE]
    ELSE IF nHeight(pindexEndOfPrevPeriod) = nHeight(currentIndex)
    THEN [count |-> count, deref |-> FALSE]
    ELSE StatsLoop(pindexEndOfPrevPeriod, pprev(currentIndex),
                   IF Condition(currentIndex) THEN count + 1 ELSE count)

(* mutant: possible needs one block more than the threshold asks for *)
GetStateStatisticsFor_StrictPossible(pindex) ==
    IF pindex = NULL
    THEN [stats |-> [NoStats EXCEPT !.period = Period, !.threshold = Threshold],
          deref |-> FALSE]
    ELSE LET pindexEndOfPrevPeriod ==
                 GetAncestor(pindex,
                             nHeight(pindex) - ((nHeight(pindex) + 1) % Period))
         IN  IF pindexEndOfPrevPeriod = NULL
             THEN [stats |-> [NoStats EXCEPT !.period = Period,
                                             !.threshold = Threshold],
                   deref |-> TRUE]
             ELSE LET elapsed == nHeight(pindex) - nHeight(pindexEndOfPrevPeriod)
                      walk == StatsLoop(pindexEndOfPrevPeriod, pindex, 0)
                  IN  [stats |-> [period |-> Period, threshold |-> Threshold,
                                  elapsed |-> elapsed, count |-> walk.count,
                                  possible |-> (Period - Threshold)
                                                 > (elapsed - walk.count)],
                       deref |-> walk.deref]

(* Result: the statistics, and whether the call dereferenced nullptr (the   *)
(* statistics then mean nothing).                                           *)
GetStateStatisticsFor(pindex) ==
    IF pindex = NULL
    THEN [stats |-> [NoStats EXCEPT !.period = Period, !.threshold = Threshold],
          deref |-> FALSE]
    ELSE LET pindexEndOfPrevPeriod ==
                 GetAncestor(pindex,
                             nHeight(pindex) - ((nHeight(pindex) + 1) % Period))
         IN  IF pindexEndOfPrevPeriod = NULL
             THEN [stats |-> [NoStats EXCEPT !.period = Period,
                                             !.threshold = Threshold],
                   deref |-> TRUE]
             ELSE LET elapsed == nHeight(pindex) - nHeight(pindexEndOfPrevPeriod)
                      walk == StatsLoop(pindexEndOfPrevPeriod, pindex, 0)
                  IN  [stats |-> [period |-> Period, threshold |-> Threshold,
                                  elapsed |-> elapsed, count |-> walk.count,
                                  possible |-> (Period - Threshold)
                                                 >= (elapsed - walk.count)],
                       deref |-> walk.deref]

(****************************** configurations ****************************)
Periods == 1 .. MaxPeriod

Bits == {0}

(* start heights: at genesis, inside the first periods, and some periods in *)
Heights == {0, 1, MaxParamHeight}

(* a timeout before or at every start height, one after the first periods,  *)
(* or none                                                                  *)
TimeoutHeights == {0, MaxParamHeight, NO_TIMEOUT}

(* test_one_input's choices of startheight and timeoutheight: two ordinary  *)
(* heights or one of the two sentinel pairs; and an ordinary start height   *)
(* with no timeout.                                                         *)
StartTimeoutPairs ==
    (Heights \X TimeoutHeights)
        \cup {<<ALWAYS_ACTIVE, NO_TIMEOUT>>, <<NEVER_ACTIVE, NEVER_ACTIVE>>}

(* no minimum activation height, or one some periods after the start *)
MinActivationHeights == {0, LateActivation}

(* the signalling and the non-signalling version a run mines with *)
SignalVersions(bit) == {VERSIONBITS_TOP_BITS + Pow2(bit)}

NoSignalVersions(bit) == {VERSIONBITS_TOP_BITS}

(* TestConditionChecker's constructor asserts and test_one_input's early    *)
(* exits on versions that do not signal sensibly.                           *)
Configs ==
    { c \in [period : Periods, threshold : 0 .. MaxPeriod, bit : Bits,
             startheight : Heights \cup {ALWAYS_ACTIVE, NEVER_ACTIVE},
             timeoutheight : TimeoutHeights \cup {NEVER_ACTIVE},
             min_activation : MinActivationHeights, lockinontimeout : BOOLEAN,
             ver_signal : UNION {SignalVersions(b) : b \in Bits},
             ver_nosignal : UNION {NoSignalVersions(b) : b \in Bits}] :
        /\ c.period > 0
        /\ 0 <= c.threshold /\ c.threshold <= c.period
        /\ 0 <= c.bit /\ c.bit < 32 /\ c.bit < VERSIONBITS_NUM_BITS
        /\ <<c.startheight, c.timeoutheight>> \in StartTimeoutPairs
        /\ ConditionVersion(c.ver_signal, c.bit)
        /\ ~ConditionVersion(c.ver_nosignal, c.bit)
        /\ c.ver_nosignal >= 0 }

(********************************* actions *********************************)
(* The checker is constructed and no block is mined, and the first queries, *)
(* with prev = tip = nullptr, are made: since-height, state, statistics.    *)
Init ==
    /\ cfg \in Configs
    /\ chain = <<>>
    /\ LET since == GetStateSinceHeightFor(NULL, EmptyCache)
           state == GetStateFor(NULL, since.cache)
           stats == GetStateStatisticsFor(NULL)
       IN  /\ cache = state.cache
           /\ obs = <<[state |-> state.state, since |-> since.since,
                       stats |-> stats.stats,
                       deref |-> since.deref \/ state.deref \/ stats.deref]>>

(* the heights a call that dereferenced nullptr may return *)
AnyHeight == 0 .. (MaxBlocks + 1)

(* the statistics a call that dereferenced nullptr may return *)
AnyStats ==
    [period : {Period}, threshold : {Threshold}, elapsed : AnyHeight,
     count : AnyHeight, possible : BOOLEAN]

(* mutant: the caller takes the statistics of every block, whatever its    *)
(* state                                                                    *)
CallerGuard_Unguarded(state, pindex) == TRUE

(* test_one_input asks for the statistics of the block it holds with no     *)
(* guard where the block ends a period (or is nullptr), and otherwise only  *)
(* where the state it got for the block is STARTED or MUST_SIGNAL.          *)
CallerGuard(state, pindex) ==
    \/ pindex = NULL
    \/ (nHeight(pindex) + 1) % Period = 0
    \/ state \in {STARTED, MUST_SIGNAL}

(* One round of the mining loop: Blocks::mine_block, then the state and the *)
(* since-height for the new block on the checker's cache, and the           *)
(* statistics where the caller's guard lets them be taken.                  *)
MineBlock(signal) ==
    /\ Len(chain) < MaxBlocks
    /\ \E current_block \in
              {Append(chain, IF signal THEN cfg.ver_signal ELSE cfg.ver_nosignal)} :
          \E state \in {GetStateFor(current_block, cache)} :
            \E since \in {GetStateSinceHeightFor(current_block, state.cache)} :
              \E stats \in {IF CallerGuard(state.state, current_block)
                             THEN GetStateStatisticsFor(current_block)
                             ELSE [stats |-> NoStats, deref |-> FALSE]} :
                /\ chain' = current_block
                /\ cfg' = cfg
                /\ cache' = since.cache
                /\ \E height \in IF since.deref THEN AnyHeight ELSE {since.since} :
                      \E st \in IF stats.deref THEN AnyStats ELSE {stats.stats} :
                        obs' = Append(obs,
                                      [state |-> state.state, since |-> height,
                                       stats |-> st,
                                       deref |-> \/ state.deref
                                                 \/ since.deref
                                                 \/ stats.deref])

(* TestConditionChecker::GetStateFor on the checker's cache, for any block  *)
(* mined so far                                                             *)
StateFor(pindexPrev) ==
    \E r \in {GetStateFor(pindexPrev, cache)} :
        /\ cache' = r.cache
        /\ obs' = [obs EXCEPT ![nHeight(pindexPrev) + 2].state = r.state,
                               ![nHeight(pindexPrev) + 2].deref = @ \/ r.deref]
        /\ UNCHANGED <<cfg, chain>>

(* TestConditionChecker::GetStateSinceHeightFor on the checker's cache, for *)
(* any block mined so far                                                   *)
SinceHeightFor(pindexPrev) ==
    \E r \in {GetStateSinceHeightFor(pindexPrev, cache)} :
        /\ cache' = r.cache
        /\ \E height \in IF r.deref THEN AnyHeight ELSE {r.since} :
              obs' = [obs EXCEPT ![nHeight(pindexPrev) + 2].since = height,
                                 ![nHeight(pindexPrev) + 2].deref = @ \/ r.deref]
        /\ UNCHANGED <<cfg, chain>>

(* TestConditionChecker::GetStateStatisticsFor, for any block mined so far  *)
(* that passes the caller's guard with the state last returned for it       *)
StatisticsFor(pindex) ==
    /\ CallerGuard(obs[nHeight(pindex) + 2].state, pindex)
    /\ \E r \in {GetStateStatisticsFor(pindex)} :
          \E st \in IF r.deref THEN AnyStats ELSE {r.stats} :
              obs' = [obs EXCEPT ![nHeight(pindex) + 2].stats = st,
                                 ![nHeight(pindex) + 2].deref = @ \/ r.deref]
    /\ UNCHANGED <<cfg, chain, cache>>

(* VersionBitsCache::Clear, for the one deployment slot modelled *)
Clear ==
    /\ cache' = EmptyCache
    /\ UNCHANGED <<cfg, chain, obs>>

Next ==
    \/ \E signal \in BOOLEAN : MineBlock(signal)
    \/ \E pindexPrev \in Blocks : StateFor(pindexPrev)
    \/ \E pindexPrev \in Blocks : SinceHeightFor(pindexPrev)
    \/ \E pindex \in Blocks : StatisticsFor(pindex)
    \/ Clear

Spec == Init /\ [][Next]_vars

(******************************* scenario S1 *******************************)
(* The run of the concrete scenario "late signal, lock in": whole periods   *)
(* are mined as test_one_input mines its prior periods, and the queries are *)
(* made at the tip after each period; obs[n + 1] holds the answers with     *)
(* prev = the tip after n periods.                                          *)
ScenarioS1 ==
    [period |-> 32, threshold |-> 28, bit |-> 0, startheight |-> 0,
     timeoutheight |-> 10000, min_activation |-> 0, lockinontimeout |-> FALSE,
     ver_signal |-> VERSIONBITS_TOP_BITS + 1, ver_nosignal |-> VERSIONBITS_TOP_BITS]

InitS1 ==
    /\ cfg = ScenarioS1
    /\ chain = <<>>
    /\ LET since == GetStateSinceHeightFor(NULL, EmptyCache)
           state == GetStateFor(NULL, since.cache)
       IN  /\ cache = state.cache
           /\ obs = <<[state |-> state.state, since |-> since.since,
                       stats |-> GetStateStatisticsFor(NULL).stats]>>

(* period calls of mine_block, block i not signalling iff i is in quiet,    *)
(* then the three queries with the new tip                                  *)
MinePeriod(quiet) ==
    \E current_block \in
          {chain \o [i \in 1 .. Period |->
                        IF i \in quiet THEN cfg.ver_nosignal ELSE cfg.ver_signal]} :
      \E state \in {GetStateFor(current_block, cache)} :
        \E since \in {GetStateSinceHeightFor(current_block, state.cache)} :
          \E stats \in {GetStateStatisticsFor(current_block)} :
            /\ chain' = current_block
            /\ cfg' = cfg
            /\ cache' = since.cache
            /\ \E height \in IF since.deref THEN AnyHeight ELSE {since.since} :
                  \E st \in IF stats.deref THEN AnyStats ELSE {stats.stats} :
                    obs' = Append(obs, [state |-> state.state, since |-> height,
                                        stats |-> st])

(* the first period: 32 non-signalling blocks *)
MineQuietPeriod ==
    /\ Len(chain) = 0
    /\ MinePeriod(1 .. Period)

(* the second period: all but period - threshold blocks signal, in any order *)
MineMixedPeriod ==
    /\ Len(chain) = Period
    /\ \E a \in 1 .. Period : \E b \in (a + 1) .. Period :
         \E c \in (b + 1) .. Period : \E d \in (c + 1) .. Period :
           /\ Cardinality({a, b, c, d}) = Period - Threshold
           /\ MinePeriod({a, b, c, d})

(* the third period: every block signals or none does *)
MineLastPeriod(signal) ==
    /\ Len(chain) = 2 * Period
    /\ MinePeriod(IF signal THEN {} ELSE 1 .. Period)

NextS1 ==
    \/ MineQuietPeriod
    \/ MineMixedPeriod
    \/ \E signal \in BOOLEAN : MineLastPeriod(signal)

SpecS1 == InitS1 /\ [][NextS1]_vars

(*************************** the condition alone ***************************)
(* Condition and the signal mask as functions of a 32-bit version and a     *)
(* bit: chain is the one block index TestConditionChecker::Condition(int32) *)
(* would be asked about, obs[1] holds the answers.                          *)

(* the signed 32-bit value with the top three bits top (0..7) and the low   *)
(* 29 bits low                                                              *)
Int32Of(top, low) ==
    IF top < 4 THEN top * Pow2(VERSIONBITS_NUM_BITS) + low
    ELSE (((top - 4) * Pow2(VERSIONBITS_NUM_BITS) + low) - INT32_MAX) - 1

(* low 29 bits: none, all, the deployment bit alone, all but it, and the    *)
(* bits next to it                                                          *)
LowBits(bit) ==
    {0, Pow2(VERSIONBITS_NUM_BITS) - 1, Pow2(bit),
     (Pow2(VERSIONBITS_NUM_BITS) - 1) - Pow2(bit),
     Pow2((bit + 1) % VERSIONBITS_NUM_BITS),
     Pow2((bit + VERSIONBITS_NUM_BITS - 1) % VERSIONBITS_NUM_BITS)}

Versions(bit) == {Int32Of(top, low) : top \in 0 .. 7, low \in LowBits(bit)}

InitCondition ==
    /\ cfg \in {[ScenarioS1 EXCEPT !.bit = bit] :
                    bit \in 0 .. (VERSIONBITS_NUM_BITS - 1)}
    /\ chain = <<>>
    /\ cache = EmptyCache
    /\ obs = <<[condition |-> FALSE, mask |-> 0]>>

(* checker.Condition(version) for a version of any top bits *)
CheckCondition(version) ==
    LET index == <<version>>
    IN  /\ chain' = index
        /\ obs' = [obs EXCEPT ![1].condition = Condition(index)]
        /\ UNCHANGED <<cfg, cache>>

(* VersionBitsMask *)
SignalMask ==
    /\ obs' = [obs EXCEPT ![1].mask = Mask(cfg.bit)]
    /\ UNCHANGED <<cfg, chain, cache>>

NextCondition ==
    \/ \E version \in Versions(cfg.bit) : CheckCondition(version)
    \/ SignalMask

SpecCondition == InitCondition /\ [][NextCondition]_vars

(***************************************************************************)
(* What a caller observes in the current state, and the vocabulary of the  *)
(* properties.  A block at height h has the state state_for of its parent, *)
(* the block h - 1 (nullptr for genesis).                                  *)
(***************************************************************************)
(* Blocks are named by their height, None for nullptr. *)
None == nHeight(NULL)

Prevs == None .. (Len(chain) - 1)

BlockAt(b) == SubSeq(chain, 1, b + 1)

(* what a query made now, on the current cache, returns *)
StateOf(b) == GetStateFor(BlockAt(b), cache).state

SinceOf(b) == GetStateSinceHeightFor(BlockAt(b), cache).since

(* the cache holds an entry for the block at height b, and the entry *)
Cached(b) == BlockAt(b) \in DOMAIN cache

CacheAt(b) == cache[BlockAt(b)]

(* what the latest queries returned: the state and the since-height of the *)
(* block that follows b, for every b of Prevs                              *)
States == [b \in Prevs |-> obs[b + 2].state]

Sinces == [b \in Prevs |-> obs[b + 2].since]

Stats == [b \in Prevs |-> obs[b + 2].stats]

(* the period-boundary previous-block of b: the ancestor at height         *)
(* b.height - ((b.height + 1) mod period), none below genesis              *)
BoundaryOf(b) ==
    IF b = None THEN None
    ELSE IF b - ((b + 1) % Period) < 0 THEN None
    ELSE b - ((b + 1) % Period)

(* the boundary blocks of the chain, none excluded *)
Boundaries == {b \in Prevs : b # None /\ (b + 1) % Period = 0}

(* the boundary block one period before the boundary block P *)
PrevBoundary(P) == IF P - Period < 0 THEN None ELSE P - Period

(* the blocks of the period that ends at the boundary block P that signal *)
Signalling(P) ==
    {h \in (P - Period + 1) .. P : ConditionVersion(chain[h + 1], cfg.bit)}

(* DEFINED at the parent of genesis, then the transition table once per period *)
RECURSIVE TableState(_)
TableState(P) ==
    IF P = None THEN DEFINED
    ELSE LET before == TableState(PrevBoundary(P))
         IN  StateNext(before, P + 1,
                       IF before = STARTED THEN Cardinality(Signalling(P)) ELSE 0)

(* the answer of a single query on a fresh cache, table and fast paths *)
ExpectedState(b) ==
    IF StartHeight = NEVER_ACTIVE /\ TimeoutHeight = NEVER_ACTIVE THEN DEFINED
    ELSE IF StartHeight = ALWAYS_ACTIVE THEN ACTIVE
    ELSE TableState(BoundaryOf(b))

OrdinaryHeights == StartHeight \in Heights /\ TimeoutHeight \in Heights

(* C1: after any sequence of state_for and since_height_for queries, chain *)
(* extensions and clear() calls, state_for(prev_block) has returned, and    *)
(* returns on the current cache, for every prev_block what the same query   *)
(* returns on a fresh empty cache, which is the state the transition table  *)
(* gives from DEFINED at the parent of genesis (behind the two fast paths); *)
(* every cached entry, the ones the walk-back shortcut wrote included,      *)
(* holds that state.                                                        *)
C1_CacheAgreesWithFreshCache ==
    LET state == States
    IN
        /\ \A b \in Prevs :
              \A fresh \in {GetStateFor(BlockAt(b), EmptyCache).state} :
                 /\ state[b] = fresh
                 /\ StateOf(b) = fresh
                 /\ state[b] = ExpectedState(b)
        /\ \A k \in DOMAIN cache : cache[k] = TableState(nHeight(k))

(* C1 witness: a cache filled by queries that stopped at the walk-back      *)
(* shortcut (an entry below the start height, none for nullptr) and then    *)
(* computed a state other than DEFINED.                                     *)
C1_Witness ==
    /\ ~Cached(None)
    /\ \E k \in DOMAIN cache : nHeight(k) + 1 < StartHeight /\ cache[k] = DEFINED
    /\ \E k \in DOMAIN cache : cache[k] \notin {DEFINED, STARTED}
    /\ Len(chain) = MaxBlocks

(* C2: for every prev_block B and its period-boundary previous-block P,     *)
(* state_for(B) = state_for(P) and since_height_for(B) = since_height_for(P) *)
C2_PeriodStability ==
    LET state == States
        since == Sinces
    IN
        \A b \in Prevs :
            /\ state[b] = state[BoundaryOf(b)]
            /\ since[b] = since[BoundaryOf(b)]

(* C2 witness: a block inside a period (not a boundary block) whose period  *)
(* is in a state other than DEFINED with a positive since-height, after a   *)
(* query cached that period's state.                                        *)
C2_Witness ==
    LET state == States
        since == Sinces
    IN
        \E b \in Prevs :
            /\ b # None /\ BoundaryOf(b) # b /\ Cached(BoundaryOf(b))
            /\ state[b] # DEFINED
            /\ since[b] = BoundaryOf(b) + 1

(* C3: once the state of a block is ACTIVE (FAILED), the state of every     *)
(* later block of the chain is ACTIVE (FAILED)                              *)
C3_TerminalAbsorbing ==
    LET state == States
    IN
        \A b1, b2 \in Prevs :
            (b1 <= b2 /\ state[b1] \in {ACTIVE, FAILED}) => state[b2] = state[b1]

(* C3 witness: a cached FAILED period followed by a later cached period in  *)
(* which every block signals, under a configuration that is not a sentinel. *)
C3_Witness ==
    /\ OrdinaryHeights
    /\ \E P1, P2 \in Boundaries :
          /\ P1 < P2 /\ Cached(P1) /\ Cached(P2)
          /\ CacheAt(P1) = FAILED /\ CacheAt(P2) = FAILED
          /\ Cardinality(Signalling(P2)) = Period /\ Threshold >= 1

(* C4: for a period whose state is STARTED, the state of the next period   *)
(* is LOCKED_IN iff at least threshold of the period blocks ending at the   *)
(* boundary block signal, whatever timeout_height and lockin_on_timeout     *)
C4_CountingCorrectness ==
    LET state == States
    IN
        \A P \in Boundaries :
            state[PrevBoundary(P)] = STARTED =>
                (state[P] = LOCKED_IN <=> Cardinality(Signalling(P)) >= Threshold)

(* C4 witness: a STARTED period of more than one block that met a threshold *)
(* above one at a boundary that has reached timeout_height with             *)
(* lockin_on_timeout set, cached as LOCKED_IN                               *)
C4_Witness ==
    \E P \in Boundaries :
        /\ Period > 1 /\ Threshold > 1 /\ LockinOnTimeout
        /\ P + 1 >= TimeoutHeight
        /\ Cached(P) /\ Cached(PrevBoundary(P))
        /\ CacheAt(PrevBoundary(P)) = STARTED /\ CacheAt(P) = LOCKED_IN
        /\ Cardinality(Signalling(P)) >= Threshold

(* C5: unless start_height = ALWAYS_ACTIVE no block below                   *)
(* min_activation_height is ACTIVE; after a LOCKED_IN period the next       *)
(* period is LOCKED_IN when its first height is below min_activation_height *)
(* and ACTIVE otherwise                                                     *)
C5_MinActivation ==
    LET state == States
    IN
        StartHeight # ALWAYS_ACTIVE =>
            /\ \A b \in Prevs : state[b] = ACTIVE => b + 1 >= MinActivationHeight
            /\ \A P \in Boundaries :
                  state[PrevBoundary(P)] = LOCKED_IN =>
                      state[P] = IF P + 1 >= MinActivationHeight
                                   THEN ACTIVE ELSE LOCKED_IN

(* C5 witness: a deployment held in LOCKED_IN for a second period by the    *)
(* minimum activation height, then ACTIVE at the first boundary at it       *)
C5_Witness ==
    \E P \in Boundaries :
        /\ P + 1 >= MinActivationHeight /\ P + 1 - Period < MinActivationHeight
        /\ Cached(P) /\ Cached(PrevBoundary(P)) /\ Cached(PrevBoundary(PrevBoundary(P)))
        /\ CacheAt(P) = ACTIVE
        /\ CacheAt(PrevBoundary(P)) = LOCKED_IN
        /\ CacheAt(PrevBoundary(PrevBoundary(P))) = LOCKED_IN

(* C6: the period after a MUST_SIGNAL period is LOCKED_IN (so MUST_SIGNAL   *)
(* lasts one period), however many blocks of the period signal              *)
C6_MustSignalLocksIn ==
    LET state == States
    IN
        \A P \in Boundaries :
            state[PrevBoundary(P)] = MUST_SIGNAL =>
                /\ state[P] = LOCKED_IN
                /\ PrevBoundary(P) # None
                /\ state[PrevBoundary(PrevBoundary(P))] # MUST_SIGNAL

(* C6 witness: a MUST_SIGNAL period in which no block signals, below a      *)
(* positive threshold, followed by a cached LOCKED_IN period                *)
C6_Witness ==
    \E P \in Boundaries :
        /\ Cached(P) /\ Cached(PrevBoundary(P))
        /\ CacheAt(PrevBoundary(P)) = MUST_SIGNAL /\ CacheAt(P) = LOCKED_IN
        /\ Signalling(P) = {} /\ Threshold > 0

(* C7: with lockin_on_timeout no block is FAILED; a period is the first     *)
(* FAILED one only after a STARTED period, without lockin_on_timeout, with  *)
(* fewer than threshold signals and its first height at timeout_height or   *)
(* later; every FAILED block's period starts at or after start_height and   *)
(* timeout_height                                                           *)
C7_FailedOnlyWithoutLockinOnTimeout ==
    LET state == States
    IN
        /\ LockinOnTimeout => \A b \in Prevs : state[b] # FAILED
        /\ \A P \in Boundaries :
              (state[P] = FAILED /\ state[PrevBoundary(P)] # FAILED) =>
                  /\ state[PrevBoundary(P)] = STARTED
                  /\ ~LockinOnTimeout
                  /\ Cardinality(Signalling(P)) < Threshold
                  /\ P + 1 >= TimeoutHeight
        /\ \A b \in Prevs :
              state[b] = FAILED =>
                  /\ BoundaryOf(b) # None
                  /\ BoundaryOf(b) + 1 >= StartHeight
                  /\ BoundaryOf(b) + 1 >= TimeoutHeight

(* C7 witness: ordinary heights with lockin_on_timeout, a STARTED period    *)
(* short of the threshold at a boundary that has reached timeout_height,    *)
(* cached as MUST_SIGNAL and not FAILED                                     *)
C7_Witness ==
    /\ OrdinaryHeights /\ LockinOnTimeout
    /\ \E P \in Boundaries :
          /\ Cached(P) /\ Cached(PrevBoundary(P))
          /\ CacheAt(PrevBoundary(P)) = STARTED
          /\ Cardinality(Signalling(P)) < Threshold
          /\ P + 1 >= TimeoutHeight
          /\ CacheAt(P) = MUST_SIGNAL

(* the first height of the period of the block computed for b *)
FirstHeightOfPeriod(b) == IF BoundaryOf(b) = None THEN 0 ELSE BoundaryOf(b) + 1

(* the period of the block computed for b is the first period in its state *)
FirstPeriodInState(state, b) ==
    \/ BoundaryOf(b) = None
    \/ state[BoundaryOf(b)] # state[PrevBoundary(BoundaryOf(b))]

(* C8: along the chain, block by block, the since-height never decreases;   *)
(* where the state differs from the block before, the block is the first of *)
(* a period and the since-height is its height; where the state is the same *)
(* the since-height is the same                                             *)
C8_SinceMonotonic ==
    LET state == States
        since == Sinces
    IN
        \A b \in Prevs :
            (b + 1) \in Prevs =>
                /\ since[b] <= since[b + 1]
                /\ state[b + 1] # state[b] =>
                      /\ (b + 1) \in Boundaries
                      /\ since[b + 1] = (b + 1) + 1
                /\ state[b + 1] = state[b] => since[b + 1] = since[b]

(* C8 witness: two consecutive cached periods in two different states      *)
(* other than DEFINED, each with the since-height of its own first block    *)
C8_Witness ==
    LET state == States
        since == Sinces
    IN
        \E P \in Boundaries :
            /\ PrevBoundary(P) # None
            /\ Cached(P) /\ Cached(PrevBoundary(P))
            /\ state[P] # state[PrevBoundary(P)]
            /\ state[PrevBoundary(P)] # DEFINED
            /\ since[P] = P + 1
            /\ since[PrevBoundary(P)] = PrevBoundary(P) + 1

(* C9: for every prev_block, none included, the since-height is a multiple  *)
(* of period with 0 <= since <= prev_block.height + 1                       *)
C9_SinceAlignedAndBounded ==
    LET since == Sinces
    IN
        \A b \in Prevs :
            /\ since[b] % Period = 0
            /\ 0 <= since[b]
            /\ since[b] <= (IF b = None THEN 0 ELSE b + 1)

(* C9 witness: a prev_block inside a period of several blocks, with a       *)
(* positive since-height, after a query cached its period                   *)
C9_Witness ==
    LET since == Sinces
    IN
        \E b \in Prevs :
            /\ b # None /\ Period > 1 /\ b \notin Boundaries
            /\ Cached(BoundaryOf(b))
            /\ since[b] > 0

(* C10 as stated: the since-height equals prev_block.height + 1 iff the     *)
(* period of the block computed for prev_block is the first in its state    *)
C10_SinceIsNextHeightIffFirstPeriod ==
    LET state == States
        since == Sinces
    IN
        \A b \in Prevs : (since[b] = b + 1) <=> FirstPeriodInState(state, b)

(* C10 amended: the since-height equals the first height of the period of   *)
(* the block computed for prev_block iff that period is the first in its    *)
(* state; it equals prev_block.height + 1 iff, moreover, prev_block is none *)
(* or a period-boundary block                                               *)
C10_SinceIsPeriodStartIffFirstPeriod ==
    LET state == States
        since == Sinces
    IN
        \A b \in Prevs :
            /\ (since[b] = FirstHeightOfPeriod(b)) <=> FirstPeriodInState(state, b)
            /\ (since[b] = b + 1) <=> (FirstPeriodInState(state, b) /\ BoundaryOf(b) = b)

(* C10 witness: a prev_block inside the first period of a state other than  *)
(* DEFINED, after a query cached the period: the since-height is the        *)
(* period's first height, not the next height                               *)
C10_Witness ==
    LET state == States
        since == Sinces
    IN
        \E b \in Prevs :
            /\ b # None /\ BoundaryOf(b) # b /\ Cached(BoundaryOf(b))
            /\ state[b] # DEFINED
            /\ FirstPeriodInState(state, b)
            /\ since[b] = BoundaryOf(b) + 1

(* C11: unless start_height = ALWAYS_ACTIVE, the since-height of a          *)
(* prev_block is 0 exactly when its state is DEFINED; every other state has *)
(* a strictly positive since-height                                         *)
C11_SinceZeroIffDefined ==
    LET state == States
        since == Sinces
    IN
        StartHeight # ALWAYS_ACTIVE =>
            \A b \in Prevs :
                /\ (since[b] = 0) <=> (state[b] = DEFINED)
                /\ state[b] # DEFINED => since[b] > 0

(* C11 witness: a chain with a DEFINED block past the first period, since   *)
(* 0, and a later block in another state with a positive since-height       *)
C11_Witness ==
    LET state == States
        since == Sinces
    IN
        /\ StartHeight # ALWAYS_ACTIVE
        /\ \E b1, b2 \in Prevs :
              /\ BoundaryOf(b1) # None /\ b1 < b2
              /\ state[b1] = DEFINED /\ since[b1] = 0
              /\ state[b2] # DEFINED /\ since[b2] > 0

(* the blocks among the elapsed most recent ones ending at block b that     *)
(* signal                                                                   *)
RecentSignalling(b, elapsed) ==
    {h \in (b - elapsed + 1) .. b : ConditionVersion(chain[h + 1], cfg.bit)}

(* C15: for every block b whose state_for is STARTED or MUST_SIGNAL the     *)
(* statistics of b are the configured period and threshold, elapsed =       *)
(* (b.height + 1) mod period, count = the signalling blocks among the       *)
(* elapsed most recent ones, possible iff count + (period - elapsed) >=     *)
(* threshold; for the last block of a period they are 0, 0 and true         *)
C15_StatsIdentity ==
    LET state == States
        stats == Stats
    IN
        \A b \in Prevs :
            b # None =>
                /\ state[b] \in {STARTED, MUST_SIGNAL} =>
                      LET elapsed == (b + 1) % Period
                          count == Cardinality(RecentSignalling(b, elapsed))
                      IN  stats[b] =
                              [period |-> Period, threshold |-> Threshold,
                               elapsed |-> elapsed, count |-> count,
                               possible |-> (count + (Period - elapsed) >= Threshold)]
                /\ b \in Boundaries =>
                      stats[b] = [period |-> Period, threshold |-> Threshold,
                                  elapsed |-> 0, count |-> 0, possible |-> TRUE]

(* C15 witness: inside a STARTED period of several blocks, statistics       *)
(* that count a signalling block under a threshold of the whole period,     *)
(* and statistics taken for the last block of the period before it          *)
C15_Witness ==
    LET state == States
        stats == Stats
    IN
        \E b \in Prevs :
            /\ b # None /\ state[b] = STARTED /\ Threshold > 1
            /\ stats[b].elapsed > 0 /\ stats[b].count > 0 /\ stats[b].possible
            /\ stats[BoundaryOf(b)].period = Period

(* the answers of the scenario run after n periods, once they are there *)
AfterPeriods(n, state, since) ==
    Len(obs) > n => (obs[n + 1].state = state /\ obs[n + 1].since = since)

(* C12 as stated: in scenario S1 the state after block 31 is STARTED with   *)
(* since 0, after block 63 LOCKED_IN with since 32, after block 95 ACTIVE   *)
(* with since 64                                                            *)
C12_ScenarioS1AsStated ==
    /\ AfterPeriods(1, STARTED, 0)
    /\ AfterPeriods(2, LOCKED_IN, Period)
    /\ AfterPeriods(3, ACTIVE, 2 * Period)

(* C12 amended: in scenario S1 the state after block 31 is STARTED with     *)
(* since 32, after block 63 LOCKED_IN with since 64, after block 95 ACTIVE  *)
(* with since 96, wherever the four non-signalling blocks of the second     *)
(* period are                                                               *)
C12_ScenarioS1 ==
    /\ AfterPeriods(0, DEFINED, 0)
    /\ AfterPeriods(1, STARTED, Period)
    /\ AfterPeriods(2, LOCKED_IN, 2 * Period)
    /\ AfterPeriods(3, ACTIVE, 3 * Period)

(* C12 witness: the scenario has run to block 95, with the four             *)
(* non-signalling blocks of the second period not all at one end            *)
C12_Witness ==
    /\ cfg = ScenarioS1
    /\ Len(chain) = 3 * Period /\ Len(obs) = 4
    /\ chain[Period + 1] = cfg.ver_signal /\ chain[2 * Period] = cfg.ver_signal
    /\ Cardinality({i \in (Period + 1) .. (2 * Period) :
                        chain[i] = cfg.ver_nosignal}) = Period - Threshold
    /\ obs[4].state = ACTIVE

(* a cache that holds the state s for nullptr and every block of the chain *)
FilledCache(s) == [k \in Blocks |-> s]

(* C13: with start_height = ALWAYS_ACTIVE state_for has returned ACTIVE and *)
(* since_height_for 0 for every prev_block, none included, whatever the     *)
(* versions of the chain; the cache is left as it was (empty), and on a     *)
(* cache filled with any other state the answers are the same and the cache *)
(* comes back unchanged                                                     *)
C13_AlwaysActive ==
    LET state == States
        since == Sinces
    IN
        StartHeight = ALWAYS_ACTIVE =>
            /\ cache = EmptyCache
            /\ \A b \in Prevs :
                  /\ state[b] = ACTIVE /\ since[b] = 0
                  /\ \A s \in ThresholdState :
                        /\ GetStateFor(BlockAt(b), FilledCache(s)) =
                               [state |-> ACTIVE, cache |-> FilledCache(s),
                                deref |-> FALSE]
                        /\ GetStateSinceHeightFor(BlockAt(b), FilledCache(s)) =
                               [since |-> 0, cache |-> FilledCache(s),
                                deref |-> FALSE]

(* C13 witness: an always-active deployment queried along a chain of        *)
(* signalling and non-signalling blocks                                     *)
C13_Witness ==
    /\ StartHeight = ALWAYS_ACTIVE
    /\ Len(chain) = MaxBlocks /\ Len(obs) = MaxBlocks + 1
    /\ \E i, j \in 1 .. Len(chain) :
          chain[i] = cfg.ver_signal /\ chain[j] = cfg.ver_nosignal
    /\ obs[Len(obs)].state = ACTIVE

(* C14: with start_height = timeout_height = NEVER_ACTIVE state_for has     *)
(* returned DEFINED and since_height_for 0 for every prev_block, whatever   *)
(* the signalling pattern of the chain                                      *)
C14_NeverActive ==
    LET state == States
        since == Sinces
    IN
        (StartHeight = NEVER_ACTIVE /\ TimeoutHeight = NEVER_ACTIVE) =>
            \A b \in Prevs : state[b] = DEFINED /\ since[b] = 0

(* C14 witness: a never-active deployment with a threshold of at most one   *)
(* block, queried after whole periods in which every block signals          *)
C14_Witness ==
    /\ StartHeight = NEVER_ACTIVE /\ TimeoutHeight = NEVER_ACTIVE
    /\ Threshold <= 1
    /\ Len(chain) = MaxBlocks /\ Len(obs) = MaxBlocks + 1
    /\ \A i \in 1 .. Len(chain) : chain[i] = cfg.ver_signal
    /\ obs[Len(obs)].state = DEFINED

(* the configuration is one that, by the choice of its heights, is resolved *)
(* after N periods                                                          *)
ResolvedBy(N) ==
    /\ OrdinaryHeights
    /\ StartHeight <= Period * (N - 2)
    /\ TimeoutHeight <= Period * (N - 2)
    /\ MinActivationHeight <= Period * (N - 1)
    /\ Threshold >= 1
    /\ LockinOnTimeout => StartHeight < Period * (N - 3)

(* every block at height period * N or above is ACTIVE or FAILED *)
AllOverFrom(N) ==
    \A b \in Prevs : b + 1 >= Period * N => States[b] \in {ACTIVE, FAILED}

(* C16 as stated: for every number of periods N with start_height and       *)
(* timeout_height <= period * (N - 2), min_activation_height <=             *)
(* period * (N - 1), threshold >= 1 and lockin_on_timeout only with         *)
(* start_height < period * (N - 3), every block at height >= period * N is  *)
(* ACTIVE or FAILED                                                         *)
C16_BoundedResolutionAnyN ==
    \A N \in 1 .. Len(chain) : ResolvedBy(N) => AllOverFrom(N)

(* C16 amended: the same for every number of periods N >= 3 *)
C16_BoundedResolution ==
    \A N \in 3 .. Len(chain) : ResolvedBy(N) => AllOverFrom(N)

(* C16 witness: a configuration with lockin_on_timeout resolved by N = 4    *)
(* periods whose blocks never signal, ACTIVE at height period * N by way of *)
(* MUST_SIGNAL                                                              *)
C16_Witness ==
    /\ ResolvedBy(4) /\ LockinOnTimeout
    /\ \E b \in Prevs :
          /\ b + 1 >= Period * 4
          /\ States[b] = ACTIVE
          /\ \E b0 \in Prevs : States[b0] = MUST_SIGNAL
          /\ \A i \in 1 .. Len(chain) : chain[i] = cfg.ver_nosignal

(* the first height of the period of the block at height h *)
PeriodStart(h) == h - (h % Period)

(* C17: with ordinary heights the block at height h (prev_block b, h =      *)
(* b.height + 1) is DEFINED iff the first height s of its period is 0 or    *)
(* below start_height: the first period is DEFINED also for start_height 0, *)
(* and a period with s > 0 at or after start_height is never DEFINED        *)
C17_DefinedIffBeforeStart ==
    LET state == States
    IN
        StartHeight \notin {ALWAYS_ACTIVE, NEVER_ACTIVE} =>
            \A b \in Prevs :
                (state[b] = DEFINED) <=>
                    (PeriodStart(b + 1) = 0 \/ PeriodStart(b + 1) < StartHeight)

(* C17 witness: a start height past the first period; a DEFINED block of a  *)
(* later period below it, then the first period at it, which is STARTED     *)
C17_Witness ==
    LET state == States
    IN
        /\ StartHeight \notin {ALWAYS_ACTIVE, NEVER_ACTIVE}
        /\ \E b1, b2 \in Prevs :
              /\ PeriodStart(b1 + 1) > 0 /\ PeriodStart(b1 + 1) < StartHeight
              /\ state[b1] = DEFINED
              /\ PeriodStart(b2 + 1) >= StartHeight
              /\ state[b2] = STARTED

(* the blocks a state_for call started now with prev_block b would push for *)
(* its forward pass, each of which the pass writes to the cache; none for   *)
(* the fast paths                                                           *)
ToCompute(b) ==
    IF StartHeight \in {ALWAYS_ACTIVE, NEVER_ACTIVE} THEN <<>>
    ELSE WalkBack(AlignToPeriod(BlockAt(b)), cache, <<>>).vToCompute

(* every entry of the cache is in the cache after the step, with its state *)
CacheExtended ==
    \A k \in DOMAIN cache : k \in DOMAIN cache' /\ cache'[k] = cache[k]

(* the keys a call started now would write are absent from the cache, and   *)
(* no key is written twice by a call (a call with prev_block b walks back   *)
(* from the period-boundary previous-block of b)                            *)
WritesTargetAbsentKeys ==
    \A P \in {BoundaryOf(b) : b \in Prevs} :
        \A vToCompute \in {ToCompute(P)} :
            /\ \A i \in 1 .. Len(vToCompute) : vToCompute[i] \notin DOMAIN cache
            /\ \A i, j \in 1 .. Len(vToCompute) :
                  vToCompute[i] = vToCompute[j] => i = j

(* C18: a step other than clear() leaves every cache entry in place with    *)
(* the state it had, and every write of a state_for call targets a key that *)
(* was absent from the cache when the call started                          *)
C18_CacheMonotonic ==
    /\ []WritesTargetAbsentKeys
    /\ [][cache' = EmptyCache \/ CacheExtended]_vars

(* C18 witness: a cache with entries in three different states, grown by    *)
(* queries after a clear() (nullptr is not cached)                          *)
C18_Witness ==
    /\ ~Cached(None)
    /\ Cardinality({cache[k] : k \in DOMAIN cache}) >= 3

(* the period-boundary previous-blocks of the chain, none included, at or   *)
(* below the block at height top                                            *)
AlignedUpTo(top) == {None} \cup {P \in Boundaries : P <= top}

(* the highest block the cache holds (none for an empty cache); a query     *)
(* leaves the period-boundary previous-block of its prev_block cached, so   *)
(* this is the highest period-aligned block queried since the cache was     *)
(* last empty                                                               *)
HighestCached ==
    IF \E k \in DOMAIN cache : k # NULL
    THEN CHOOSE top \in Prevs :
             /\ Cached(top)
             /\ \A k \in DOMAIN cache : nHeight(k) <= top
    ELSE None

(* C19 as stated, at the first query after the cache was empty: callers     *)
(* have queried with one period-aligned block, so the cache holds at most   *)
(* one entry                                                                *)
C19_FootprintIsQueriedBlocks ==
    [][cache = EmptyCache => Cardinality(DOMAIN cache') <= 1]_vars

(* C19 amended: every key of the cache is none or a period-boundary         *)
(* previous-block of the chain, and the number of entries is at most the    *)
(* number of such blocks at or below the highest one queried since the      *)
(* cache was last empty: a query may insert one entry for each period it    *)
(* walks back over                                                          *)
C19_FootprintIsPeriodsWalked ==
    /\ \A k \in DOMAIN cache :
          /\ k \in Blocks
          /\ k = NULL \/ nHeight(k) \in Boundaries
    /\ Cardinality(DOMAIN cache) <= Cardinality(AlignedUpTo(HighestCached))

(* C19 witness: after a clear(), one query has left an entry for each of    *)
(* three or more periods                                                    *)
C19_Witness ==
    /\ Cardinality(DOMAIN cache) >= 3
    /\ Cardinality(DOMAIN cache) = Cardinality(AlignedUpTo(HighestCached)) - 1
    /\ ~Cached(None)

(* the top three bits of a signed 32-bit version are 001: the version lies  *)
(* between 0x20000000 and 0x3FFFFFFF                                        *)
TopThreeBitsAre001(version) ==
    /\ version >= VERSIONBITS_TOP_BITS
    /\ version - VERSIONBITS_TOP_BITS < VERSIONBITS_TOP_BITS

(* bit number bit of a non-negative version is set *)
BitIsSet(version, bit) == (version \div Pow2(bit)) % 2 = 1

(* C20: condition holds for a block iff the top three bits of its version   *)
(* are 001 and bit number bit is set; with other top bits it does not hold  *)
(* whatever the bit; a signalling version is positive; the signal mask is   *)
(* 1 << bit                                                                 *)
C20_TopBitGuard ==
    /\ chain # <<>> =>
          /\ obs[1].condition <=>
                (TopThreeBitsAre001(chain[1]) /\ BitIsSet(chain[1], cfg.bit))
          /\ ~TopThreeBitsAre001(chain[1]) => ~obs[1].condition
          /\ obs[1].condition => chain[1] > 0
    /\ obs[1].mask # 0 => obs[1].mask = Pow2(cfg.bit)

(* C20 witness: a negative version (top bits 101) with the deployment bit   *)
(* 28 set, found not to signal, and the mask of bit 28 returned             *)
C20_Witness ==
    /\ cfg.bit = VERSIONBITS_NUM_BITS - 1
    /\ chain = <<Int32Of(5, Pow2(cfg.bit))>>
    /\ chain[1] < 0
    /\ ~obs[1].condition
    /\ obs[1].mask = Pow2(cfg.bit)

(* the edges of the state machine, self-loops apart *)
LegalEdges ==
    {<<DEFINED, STARTED>>, <<STARTED, LOCKED_IN>>, <<STARTED, MUST_SIGNAL>>,
     <<STARTED, FAILED>>, <<MUST_SIGNAL, LOCKED_IN>>, <<LOCKED_IN, ACTIVE>>}

(* C21: between two consecutive periods of the chain the state is unchanged *)
(* or follows exactly one of the edges DEFINED->STARTED, STARTED->LOCKED_IN, *)
(* STARTED->MUST_SIGNAL, STARTED->FAILED, MUST_SIGNAL->LOCKED_IN,           *)
(* LOCKED_IN->ACTIVE; and, where the deployment is not always active, every *)
(* ACTIVE block comes after a whole STARTED period and a later whole        *)
(* LOCKED_IN period                                                         *)
C21_LegalTransitions ==
    LET state == States
    IN
        /\ \A P \in Boundaries :
              \/ state[P] = state[PrevBoundary(P)]
              \/ <<state[PrevBoundary(P)], state[P]>> \in LegalEdges
        /\ StartHeight # ALWAYS_ACTIVE =>
              \A b \in Prevs :
                  state[b] = ACTIVE =>
                      \E P1, P2 \in Boundaries :
                          /\ P1 < P2 /\ P2 < BoundaryOf(b)
                          /\ state[P1] = STARTED /\ state[P2] = LOCKED_IN

(* C21 witness: ordinary heights and a positive threshold, and a chain that *)
(* went through STARTED, MUST_SIGNAL and LOCKED_IN, one period each, and    *)
(* is ACTIVE after them                                                     *)
C21_Witness ==
    LET state == States
    IN
        /\ OrdinaryHeights /\ Threshold > 0
        /\ \E P \in Boundaries :
              /\ PrevBoundary(P) \in Boundaries
              /\ PrevBoundary(PrevBoundary(P)) \in Boundaries
              /\ PrevBoundary(PrevBoundary(PrevBoundary(P))) \in Boundaries
              /\ state[PrevBoundary(PrevBoundary(PrevBoundary(P)))] = STARTED
              /\ state[PrevBoundary(PrevBoundary(P))] = MUST_SIGNAL
              /\ state[PrevBoundary(P)] = LOCKED_IN
              /\ state[P] = ACTIVE

(* C22: a block has state MUST_SIGNAL only if lockin_on_timeout is set, the *)
(* period before its period was STARTED with fewer than threshold signals,  *)
(* and the first height h of its period has h + period >= timeout_height;   *)
(* without lockin_on_timeout no block has state MUST_SIGNAL                 *)
C22_MustSignalEntry ==
    LET state == States
    IN
        /\ \A b \in Prevs :
              state[b] = MUST_SIGNAL =>
                  /\ LockinOnTimeout
                  /\ BoundaryOf(b) \in Boundaries
                  /\ state[PrevBoundary(BoundaryOf(b))] = STARTED
                  /\ Cardinality(Signalling(BoundaryOf(b))) < Threshold
                  /\ (BoundaryOf(b) + 1) + Period >= TimeoutHeight
        /\ ~LockinOnTimeout => \A b \in Prevs : state[b] # MUST_SIGNAL

(* C22 witness: a MUST_SIGNAL period that starts below timeout_height,      *)
(* within one period of it, after a cached STARTED period short of a        *)
(* positive threshold                                                       *)
C22_Witness ==
    \E P \in Boundaries :
        /\ Cached(P) /\ Cached(PrevBoundary(P))
        /\ CacheAt(PrevBoundary(P)) = STARTED /\ CacheAt(P) = MUST_SIGNAL
        /\ States[P] = MUST_SIGNAL
        /\ Threshold > 0 /\ TimeoutHeight \in Heights
        /\ P + 1 < TimeoutHeight /\ P + 1 + Period >= TimeoutHeight

(* whether a query made with the block at height b dereferenced nullptr *)
Derefs == [b \in Prevs |-> obs[b + 2].deref]

(* C23: no query dereferences nullptr: not the statistics of a block the    *)
(* caller's guard admits, whose end-of-previous-period ancestor is a real   *)
(* block when its state is STARTED or MUST_SIGNAL, not the since-height     *)
(* query, which under an ordinary configuration finds DEFINED and returns 0 *)
(* for nullptr and for a block whose aligned ancestor is nullptr, and not   *)
(* the counting loop of the STARTED case, which reads the blocks of a       *)
(* period that lies above the first one                                     *)
C23_NullSafety ==
    LET state == States
        since == Sinces
    IN
        /\ \A b \in Prevs : ~Derefs[b]
        /\ \A b \in Prevs :
              state[b] \in {STARTED, MUST_SIGNAL} =>
                  /\ b # None /\ BoundaryOf(b) # None
                  /\ GetAncestor(BlockAt(b), BoundaryOf(b)) # NULL
        /\ StartHeight # ALWAYS_ACTIVE =>
              \A b \in Prevs :
                  BoundaryOf(b) = None => (state[b] = DEFINED /\ since[b] = 0)
        /\ \A P \in Boundaries :
              state[PrevBoundary(P)] = STARTED =>
                  /\ PrevBoundary(P) # None
                  /\ \A i \in 0 .. (Period - 1) :
                        GetAncestor(BlockAt(P), P - i) # NULL

(* C23 witness: periods of two blocks; the first block of the second period *)
(* is STARTED and its statistics were taken one block into the period, its  *)
(* since-height walk stopped at the first period, whose parent is nullptr,  *)
(* and the counting loop has run over the second period                     *)
C23_Witness ==
    /\ Period = 2 /\ OrdinaryHeights /\ Len(chain) = 4
    /\ States[1] = STARTED /\ States[2] = STARTED
    /\ Stats[2].elapsed = 1 /\ Stats[2].count = 1
    /\ Sinces[2] = 2
    /\ Cached(3)
    /\ ~Derefs[2]

====
